---- MODULE Spec2Model ----
(***************************************************************************)
(* Checkout state machine of backend/server.py: carts, coupon evaluation,  *)
(* order pricing, create_order and verify_payment over the document store. *)
(*                                                                         *)
(* Every coroutine is cut at its datastore calls (the awaits): one action  *)
(* is one datastore operation together with the synchronous code that runs *)
(* up to the next await.  The gateway calls are synchronous and belong to  *)
(* the step they occur in.                                                 *)
(*                                                                         *)
(* Money is exact decimal arithmetic on integers:                          *)
(*   cents  = 1/100 of the currency unit (prices, persisted amounts)       *)
(*   e4     = 1/10000 of the currency unit (unrounded discount and base)   *)
(* round(x, 2) is Python's round on a binary float: away from a decimal    *)
(* tie it is the nearest cent; on an exact decimal tie the float may lie   *)
(* on either side, so both neighbouring cents are possible outcomes.       *)
(***************************************************************************)
EXTENDS Integers, Sequences, FiniteSets, TLC

VARIABLES
    carts,      \* cart_collection: documents in insertion order, _id = index
    orders,     \* order_collection: documents in insertion order, _id = index
    coupons,    \* coupon_collection: code -> document (unique index on code)
    gwCount,    \* remote orders opened so far; remote ids are 1..gwCount
    mock,       \* TRUE when the test key secret is in use or the client is missing
    now,        \* datetime.now(timezone.utc)
    req,        \* the requests in flight, one per slot
    served      \* the requests accepted so far

vars == <<carts, orders, coupons, gwCount, mock, now, req, served>>

db == <<carts, orders, coupons>>

\* ------------------------------------------------------------------ bounds

\* A run serves MaxRequests requests; that bounds the carts, the quantities,
\* the orders and the used-counts.
MaxRequests == 4

\* The clock runs from 1 to MaxTime.
MaxTime == 2

\* ------------------------------------------------------- program constants

FreeShippingOver == 5000
ShippingFee == 99
TaxRatePct == 18

\* ------------------------------------------------------------------ domains

Users == {"u1", "u2"}
Slots == {"r1", "r2"}

\* Optional[...] fields: <<>> is None, <<v>> is the value v.
NoneV == <<>>
Some(v) == <<v>>
IsSet(o) == o # <<>>
\* Python truthiness of an optional number: None and 0 are both falsy.
Truthy(o) == o # <<>> /\ o[1] # 0

\* str.upper() on the coupon codes the requests use.
Upper(c) ==
    CASE c = "save" -> "SAVE"
      [] c = "flat" -> "FLAT"
      [] c = "once" -> "ONCE"
      [] OTHER -> c

\* ------------------------------------------------------------- line items

\* CartItem: _id, productId, selectedSize, selectedColor, price (cents),
\* quantity.  name, image and category are display fields no step reads.
NoItem == [id |-> 0, productId |-> "", selectedSize |-> "", selectedColor |-> "",
           price |-> 0, quantity |-> 0]

\* What "$set items.<i>.quantity" leaves at a position past the end of the
\* array: a document holding the quantity alone (the gap before it is nulls).
PartialItem(q) == [NoItem EXCEPT !.quantity = q]

\* CartItem(**it) raises on a null or a document without the required fields.
Malformed(it) == it.productId = ""

SameKeyNoColor(a, b) ==
    /\ a.productId = b.productId
    /\ a.selectedSize = b.selectedSize

\* add_item_to_cart's match: productId, selectedSize and selectedColor.
SameKey(a, b) ==
    /\ a.productId = b.productId
    /\ a.selectedSize = b.selectedSize
    /\ a.selectedColor = b.selectedColor

RECURSIVE SumSeq(_)
SumSeq(s) == IF s = <<>> THEN 0 ELSE Head(s) + SumSeq(Tail(s))

\* subtotal = sum(item.price * item.quantity for item in items), in cents.
Subtotal(items) == SumSeq([i \in 1..Len(items) |-> items[i].price * items[i].quantity])

\* ------------------------------------------------------------- collections

\* find_one({"userId": u}): the index of the first matching cart, 0 if none.
FindCart(u) ==
    IF \E i \in 1..Len(carts) : carts[i].userId = u
    THEN CHOOSE i \in 1..Len(carts) :
            /\ carts[i].userId = u
            /\ \A j \in 1..(i - 1) : carts[j].userId # u
    ELSE 0

HasItemId(items, id) == \E k \in 1..Len(items) : items[k].id = id

\* The first cart matching {"userId": u, "items._id": id}, 0 if none.
FindCartWithItem(u, id) ==
    IF \E i \in 1..Len(carts) : carts[i].userId = u /\ HasItemId(carts[i].items, id)
    THEN CHOOSE i \in 1..Len(carts) :
            /\ carts[i].userId = u /\ HasItemId(carts[i].items, id)
            /\ \A j \in 1..(i - 1) :
                   ~(carts[j].userId = u /\ HasItemId(carts[j].items, id))
    ELSE 0

\* The position the positional operator "$" resolves to: the first element
\* with that _id.
PosOf(items, id) == CHOOSE k \in 1..Len(items) :
                        items[k].id = id /\ \A j \in 1..(k - 1) : items[j].id # id

\* The first element of the cart snapshot matching the added item, 0 if none.
MatchPos(items, item) ==
    IF \E k \in 1..Len(items) : SameKey(items[k], item)
    THEN CHOOSE k \in 1..Len(items) :
            SameKey(items[k], item) /\ \A j \in 1..(k - 1) : ~SameKey(items[j], item)
    ELSE 0

\* "$set": {"items.<i>.quantity": q} with i = pos - 1.
SetQtyAt(items, pos, q) ==
    IF pos <= Len(items)
    THEN [items EXCEPT ![pos].quantity = q]
    ELSE [k \in 1..pos |-> IF k <= Len(items) THEN items[k]
                           ELSE IF k = pos THEN PartialItem(q) ELSE NoItem]

\* "$pull": {"items": {"_id": id}}.
RECURSIVE Pull(_, _)
Pull(items, id) ==
    IF items = <<>> THEN <<>>
    ELSE IF Head(items).id = id THEN Pull(Tail(items), id)
    ELSE <<Head(items)>> \o Pull(Tail(items), id)

\* ----------------------------------------------------------------- rounding

\* The cents round(n / d, 2-places) can give for the exact quotient n / d
\* (d > 0): the nearest integer, and both neighbours on an exact tie, where the
\* binary float may lie on either side of the decimal value.
RoundSet(n, d) ==
    LET q == n \div d
        r == n % d
    IN  IF 2 * r < d THEN {q}
        ELSE IF 2 * r > d THEN {q + 1}
        ELSE {q, q + 1}

\* ------------------------------------------------------- coupon evaluation

\* Coupon: type, value (hundredths: a percentage or an amount; percentages
\* are whole numbers here), minOrder and maxDiscount (optional, cents),
\* expiryDate (optional), usageLimit (optional), usedCount.

\* coupon.get("usageLimit") and coupon.get("usedCount", 0) >= coupon["usageLimit"]
Exhausted(c) == Truthy(c.usageLimit) /\ c.usedCount >= c.usageLimit[1]

ExpiredAtOrBefore(c, t) == IsSet(c.expiryDate) /\ c.expiryDate[1] <= t

\* expiry and expiry < datetime.now(timezone.utc); a naive expiry is read as UTC.
Expired(c, t) == IsSet(c.expiryDate) /\ c.expiryDate[1] < t

\* coupon.get("minOrder") and subtotal < coupon["minOrder"]
BelowMinimum(c, subtotal) == Truthy(c.minOrder) /\ subtotal < c.minOrder[1]

\* get_valid_coupon(code, subtotal): "none" (no code, returns None), the
\* error raised, or "ok" (returns the coupon document).
CouponCheck(code, subtotal) ==
    IF code = "" THEN "none"
    ELSE IF Upper(code) \notin DOMAIN coupons THEN "not_found"
    ELSE LET c == coupons[Upper(code)]
         IN  IF Expired(c, now) THEN "expired"
             ELSE IF Exhausted(c) THEN "exhausted"
             ELSE IF BelowMinimum(c, subtotal) THEN "min_order"
             ELSE "ok"

\* The status code of the HTTPException get_valid_coupon raises.
CouponErrorCode(res) == IF res = "not_found" THEN 404 ELSE 400

DiscountWithinSubtotal(c, subtotal) ==
    IF c.type = "percentage"
    THEN LET d == subtotal * (c.value \div 100)
         IN  IF Truthy(c.maxDiscount) /\ d > c.maxDiscount[1] * 100
             THEN c.maxDiscount[1] * 100
             ELSE d
    ELSE IF c.value > subtotal THEN subtotal * 100 ELSE c.value * 100

\* The discount of create_order for a coupon that passed evaluation, in e4:
\* percentage: subtotal * value / 100, cut to maxDiscount when that is truthy
\* and smaller; any other type: value.
Discount(c, subtotal) ==
    IF c.type = "percentage"
    THEN LET d == subtotal * (c.value \div 100)
         IN  IF Truthy(c.maxDiscount) /\ d > c.maxDiscount[1] * 100
             THEN c.maxDiscount[1] * 100
             ELSE d
    ELSE c.value * 100

\* ------------------------------------------------------------------ pricing

\* subtotal - discount, in e4.
Base(subtotal, discount) == subtotal * 100 - discount

ShippingAtLeast(subtotal, discount) ==
    IF Base(subtotal, discount) >= FreeShippingOver * 10000 THEN 0 ELSE ShippingFee * 100

\* shipping = 0 if (subtotal - discount) > 5000 else 99, in cents.
Shipping(subtotal, discount) ==
    IF Base(subtotal, discount) > FreeShippingOver * 10000 THEN 0 ELSE ShippingFee * 100

\* round(tax, 2) with tax = (subtotal - discount) * 0.18, in cents.
\* With the base b = 10000 * w + m (w whole units, 0 <= m < 10000) the exact
\* tax in cents is 18 * w + 18 * m / 10000.
TaxRounded(subtotal, discount) ==
    LET b == Base(subtotal, discount)
        w == b \div 10000
        m == b % 10000
    IN  {TaxRatePct * w + t : t \in RoundSet(m * TaxRatePct, 10000)}

\* round(total, 2) with total = subtotal - discount + shipping + tax, in cents.
\* With the base b = 10000 * w + 100 * v + f (w whole units, v cents, 0 <= v,
\* f < 100) the exact total in cents is
\* 100 * w + v + shipping + 18 * w + (1800 * v + 118 * f) / 10000.
TotalRounded(subtotal, discount) ==
    LET b == Base(subtotal, discount)
        w == b \div 10000
        v == (b % 10000) \div 100
        f == b % 100
    IN  {100 * w + v + Shipping(subtotal, discount) + TaxRatePct * w + t :
            t \in RoundSet(v * TaxRatePct * 100 + f * (100 + TaxRatePct), 10000)}

\* round(discount, 2), in cents.
DiscountRounded(discount) == RoundSet(discount, 100)

\* ----------------------------------------------------------------- gateway

PaymentIds == {"pay_1"}

\* The signature the gateway issues for a payment of a remote order (the HMAC
\* of "<order id>|<payment id>" under the key secret), and one no key signs.
Sign(rid, pid) == <<rid, pid>>
Forged == <<0, "forged">>
NoSig == <<0, "">>

\* razorpay_client.utility.verify_payment_signature(params_dict) returns
\* without raising.
SignatureOk(rid, pid, sig) == sig = Sign(rid, pid)

\* ---------------------------------------------------------------- requests

\* A slot between requests keeps the last request's operation, its status
\* code, the number of gateway calls it made and the coupon code it carried.
Idle(op, resp, calls) ==
    [op |-> op, pc |-> "idle", resp |-> resp, user |-> "", item |-> NoItem,
     itemId |-> 0, qty |-> 0, cartId |-> 0, pos |-> 0, code |-> "",
     subtotal |-> 0, snap |-> <<>>, disc |-> 0, applied |-> "", rid |-> 0,
     pid |-> "", sig |-> NoSig, oid |-> 0, gwCalls |-> calls]

Fresh == Idle("none", 0, 0)

Start(op, pc, u) == [Fresh EXCEPT !.op = op, !.pc = pc, !.user = u]

Finish(r, resp) ==
    req' = [req EXCEPT ![r] = [Idle(req[r].op, resp, req[r].gwCalls) EXCEPT
                                  !.code = req[r].code]]

\* A request is accepted while the run has requests left.
Accept == served < MaxRequests /\ served' = served + 1

Goto(r, pc) == req' = [req EXCEPT ![r].pc = pc]

\* The _id values in use: those of the cart items and those a request holds.
UsedIds ==
    UNION {{carts[i].items[k].id : k \in 1..Len(carts[i].items)} : i \in 1..Len(carts)}
      \cup {req[r].itemId : r \in Slots}

\* A new ObjectId: one that is in use nowhere.
FreshId == CHOOSE n \in 1..(Cardinality(UsedIds) + 1) : n \notin UsedIds

\* ------------------------------------------------------------------ get_cart

NewCart(u) == [userId |-> u, items |-> <<>>]

BeginGetCart(r, u) ==
    /\ req[r].pc = "idle"
    /\ Accept
    /\ req' = [req EXCEPT ![r] = Start("get_cart", "gc_find", u)]
    /\ UNCHANGED <<carts, orders, coupons, gwCount, mock, now>>

\* cart = await cart_collection.find_one({"userId": user_id})
GcFind(r) ==
    /\ req[r].pc = "gc_find"
    /\ IF FindCart(req[r].user) # 0 THEN Finish(r, 200) ELSE Goto(r, "gc_insert")
    /\ UNCHANGED <<carts, orders, coupons, gwCount, mock, now, served>>

\* await cart_collection.insert_one(new_cart)
GcInsert(r) ==
    /\ req[r].pc = "gc_insert"
    /\ carts' = Append(carts, NewCart(req[r].user))
    /\ Goto(r, "reread")
    /\ UNCHANGED <<orders, coupons, gwCount, mock, now, served>>

\* The closing find_one of get_cart and of the three cart mutations, and
\* the response built from it.
Reread(r) ==
    /\ req[r].pc = "reread"
    /\ Finish(r, 200)
    /\ UNCHANGED <<carts, orders, coupons, gwCount, mock, now, served>>

\* --------------------------------------------------------- add_item_to_cart

BeginAddItem(r, u, item) ==
    /\ req[r].pc = "idle"
    /\ Accept
    /\ req' = [req EXCEPT ![r] =
                  [Start("add_item_to_cart", "ai_find", u) EXCEPT !.item = item]]
    /\ UNCHANGED <<carts, orders, coupons, gwCount, mock, now>>

\* cart = await cart_collection.find_one({"userId": user_id}), twice: on entry
\* and after the insert of a first cart; then the scan for a matching item.
AiFind(r) ==
    /\ req[r].pc = "ai_find"
    /\ LET i == FindCart(req[r].user)
       IN  IF i = 0 THEN Goto(r, "ai_insert")
           ELSE LET items == carts[i].items
                    p == MatchPos(items, req[r].item)
                IN  req' = [req EXCEPT ![r].pc = "ai_update",
                                       ![r].cartId = i,
                                       ![r].pos = p,
                                       ![r].itemId = IF p = 0 THEN 0 ELSE items[p].id,
                                       ![r].qty = IF p = 0 THEN 0
                                                  ELSE items[p].quantity + req[r].item.quantity]
    /\ UNCHANGED <<carts, orders, coupons, gwCount, mock, now, served>>

\* await cart_collection.insert_one(cart_doc)
AiInsert(r) ==
    /\ req[r].pc = "ai_insert"
    /\ carts' = Append(carts, NewCart(req[r].user))
    /\ Goto(r, "ai_find")
    /\ UNCHANGED <<orders, coupons, gwCount, mock, now, served>>

\* The update_one of add_item_to_cart: "$set" of the quantity at the index the
\* scan found, on the cart that still holds the matched _id, or "$push" of a
\* new CartItem.
AiUpdate(r) ==
    /\ req[r].pc = "ai_update"
    /\ LET c == req[r].cartId
       IN  IF req[r].pos # 0
           THEN carts' = IF HasItemId(carts[c].items, req[r].itemId)
                         THEN [carts EXCEPT ![c].items = SetQtyAt(@, req[r].pos, req[r].qty)]
                         ELSE carts
           ELSE carts' = [carts EXCEPT ![c].items =
                             Append(@, [req[r].item EXCEPT !.id = FreshId])]
    /\ req' = [req EXCEPT ![r].pc = "reread", ![r].itemId = 0]
    /\ UNCHANGED <<orders, coupons, gwCount, mock, now, served>>

\* --------------------------------------------------------- update_cart_item

\* item_id as the client sends it: an _id, or a string that is no ObjectId.
InvalidId == 0 - 1

BeginUpdateItem(r, u, id, q) ==
    /\ req[r].pc = "idle"
    /\ Accept
    /\ req' = [req EXCEPT ![r] =
                  [Start("update_cart_item", "uc_update", u) EXCEPT !.itemId = id, !.qty = q]]
    /\ UNCHANGED <<carts, orders, coupons, gwCount, mock, now>>

\* The ObjectId.is_valid check, then update_one with the positional "$set".
UcUpdate(r) ==
    /\ req[r].pc = "uc_update"
    /\ LET i == FindCartWithItem(req[r].user, req[r].itemId)
       IN  IF req[r].itemId = InvalidId
           THEN Finish(r, 400) /\ UNCHANGED carts
           ELSE IF i = 0
           THEN Finish(r, 404) /\ UNCHANGED carts
           ELSE /\ carts' = [carts EXCEPT ![i].items =
                                SetQtyAt(@, PosOf(@, req[r].itemId), req[r].qty)]
                /\ req' = [req EXCEPT ![r].pc = "reread", ![r].itemId = 0, ![r].qty = 0]
    /\ UNCHANGED <<orders, coupons, gwCount, mock, now, served>>

\* --------------------------------------------------------- remove_cart_item

BeginRemoveItem(r, u, id) ==
    /\ req[r].pc = "idle"
    /\ Accept
    /\ req' = [req EXCEPT ![r] =
                  [Start("remove_cart_item", "rc_pull", u) EXCEPT !.itemId = id]]
    /\ UNCHANGED <<carts, orders, coupons, gwCount, mock, now>>

\* The ObjectId.is_valid check, then update_one with "$pull" on the user's cart.
RcPull(r) ==
    /\ req[r].pc = "rc_pull"
    /\ LET i == FindCart(req[r].user)
       IN  IF req[r].itemId = InvalidId
           THEN Finish(r, 400) /\ UNCHANGED carts
           ELSE /\ carts' = IF i = 0 THEN carts
                            ELSE [carts EXCEPT ![i].items = Pull(@, req[r].itemId)]
                /\ req' = [req EXCEPT ![r].pc = "reread", ![r].itemId = 0]
    /\ UNCHANGED <<orders, coupons, gwCount, mock, now, served>>

\* -------------------------------------------------------------- create_order

BeginCreateOrder(r, u, code) ==
    /\ req[r].pc = "idle"
    /\ Accept
    /\ req' = [req EXCEPT ![r] =
                  [Start("create_order", "co_cart", u) EXCEPT !.code = code]]
    /\ UNCHANGED <<carts, orders, coupons, gwCount, mock, now>>

OpenRemoteOrderRetry(r, snap, subtotal, disc, applied) ==
    \/ /\ gwCount' = gwCount + 1
       /\ req' = [req EXCEPT ![r].pc = "co_insert",
                             ![r].snap = snap,
                             ![r].subtotal = subtotal,
                             ![r].disc = disc,
                             ![r].applied = applied,
                             ![r].rid = gwCount + 1,
                             ![r].gwCalls = IF mock THEN 0 ELSE 1]
    \/ /\ ~mock
       /\ gwCount' = gwCount + 1
       /\ req' = [req EXCEPT ![r].pc = "co_insert",
                             ![r].snap = snap,
                             ![r].subtotal = subtotal,
                             ![r].disc = disc,
                             ![r].applied = applied,
                             ![r].rid = gwCount + 1,
                             ![r].gwCalls = 2]
    \/ /\ ~mock
       /\ gwCount' = gwCount
       /\ req' = [req EXCEPT ![r] = [Idle("create_order", 500, 2) EXCEPT
                                         !.code = req[r].code]]

\* razorpay_client.order.create(...) in the try block of create_order: a new
\* remote order id and the move to the insert, or any exception of the call
\* and the 500.  With the test key secret (or no client) no call is made and
\* the id is "mock_order_<new ObjectId>".
OpenRemoteOrder(r, snap, subtotal, disc, applied) ==
    \/ /\ gwCount' = gwCount + 1
       /\ req' = [req EXCEPT ![r].pc = "co_insert",
                             ![r].snap = snap,
                             ![r].subtotal = subtotal,
                             ![r].disc = disc,
                             ![r].applied = applied,
                             ![r].rid = gwCount + 1,
                             ![r].gwCalls = IF mock THEN 0 ELSE 1]
    \/ /\ ~mock
       /\ gwCount' = gwCount
       /\ req' = [req EXCEPT ![r] = [Idle("create_order", 500, 1) EXCEPT
                                         !.code = req[r].code]]

CoCartNoItemsCheck(r) ==
    /\ req[r].pc = "co_cart"
    /\ LET i == FindCart(req[r].user)
       IN  IF i = 0
           THEN Finish(r, 400) /\ UNCHANGED gwCount
           ELSE IF req[r].code # ""
           THEN /\ req' = [req EXCEPT ![r].pc = "co_coupon",
                                      ![r].snap = carts[i].items,
                                      ![r].subtotal = Subtotal(carts[i].items)]
                /\ UNCHANGED gwCount
           ELSE OpenRemoteOrder(r, carts[i].items, Subtotal(carts[i].items), 0, "")
    /\ UNCHANGED <<carts, orders, coupons, mock, now, served>>

\* cart = await cart_collection.find_one({"userId": user_id}), the empty-cart
\* check, the item snapshot and the subtotal; without a coupon code also the
\* pricing and the gateway call.
CoCart(r) ==
    /\ req[r].pc = "co_cart"
    /\ LET i == FindCart(req[r].user)
       IN  IF i = 0 \/ (i # 0 /\ carts[i].items = <<>>)
           THEN Finish(r, 400) /\ UNCHANGED gwCount
           ELSE IF \E k \in 1..Len(carts[i].items) : Malformed(carts[i].items[k])
           THEN Finish(r, 500) /\ UNCHANGED gwCount
           ELSE IF req[r].code # ""
           THEN /\ req' = [req EXCEPT ![r].pc = "co_coupon",
                                      ![r].snap = carts[i].items,
                                      ![r].subtotal = Subtotal(carts[i].items)]
                /\ UNCHANGED gwCount
           ELSE OpenRemoteOrder(r, carts[i].items, Subtotal(carts[i].items), 0, "")
    /\ UNCHANGED <<carts, orders, coupons, mock, now, served>>

CoCouponPropagates(r) ==
    /\ req[r].pc = "co_coupon"
    /\ LET res == CouponCheck(req[r].code, req[r].subtotal)
       IN  IF res = "ok"
           THEN OpenRemoteOrder(r, req[r].snap, req[r].subtotal,
                                Discount(coupons[Upper(req[r].code)], req[r].subtotal),
                                Upper(req[r].code))
           ELSE Finish(r, CouponErrorCode(res)) /\ UNCHANGED gwCount
    /\ UNCHANGED <<carts, orders, coupons, mock, now, served>>
CoCouponKeepsCode(r) ==
    /\ req[r].pc = "co_coupon"
    /\ LET res == CouponCheck(req[r].code, req[r].subtotal)
       IN  IF res = "ok"
           THEN OpenRemoteOrder(r, req[r].snap, req[r].subtotal,
                                Discount(coupons[Upper(req[r].code)], req[r].subtotal),
                                Upper(req[r].code))
           ELSE OpenRemoteOrder(r, req[r].snap, req[r].subtotal, 0, Upper(req[r].code))
    /\ UNCHANGED <<carts, orders, coupons, mock, now, served>>

\* get_valid_coupon inside the try of create_order (its find_one is the
\* await), the discount, and on HTTPException no coupon and no discount;
\* then the pricing and the gateway call.
CoCoupon(r) ==
    /\ req[r].pc = "co_coupon"
    /\ LET res == CouponCheck(req[r].code, req[r].subtotal)
       IN  IF res = "ok"
           THEN OpenRemoteOrder(r, req[r].snap, req[r].subtotal,
                                Discount(coupons[Upper(req[r].code)], req[r].subtotal),
                                Upper(req[r].code))
           ELSE OpenRemoteOrder(r, req[r].snap, req[r].subtotal, 0, "")
    /\ UNCHANGED <<carts, orders, coupons, mock, now, served>>

\* The Order document of create_order: the snapshot, the five amounts rounded
\* to cents, status "pending", the remote order id, no payment id and no
\* signature, the code of the coupon applied.
NewOrder(u, snap, subtotal, disc, applied, rid, amount, tax, discR) ==
    [userId |-> u, items |-> snap, amount |-> amount, amount_subtotal |-> subtotal,
     amount_tax |-> tax, amount_shipping |-> Shipping(subtotal, disc),
     amount_discount |-> discR, status |-> "pending", razorpay_order_id |-> rid,
     razorpay_payment_id |-> "", razorpay_signature |-> NoSig, coupon_code |-> applied]

CoInsertCountsUse(r) ==
    /\ req[r].pc = "co_insert"
    /\ \E amount \in TotalRounded(req[r].subtotal, req[r].disc) :
       \E tax \in TaxRounded(req[r].subtotal, req[r].disc) :
       \E discR \in DiscountRounded(req[r].disc) :
          orders' = Append(orders,
                       NewOrder(req[r].user, req[r].snap, req[r].subtotal, req[r].disc,
                                req[r].applied, req[r].rid, amount, tax, discR))
    /\ coupons' = IF req[r].applied \in DOMAIN coupons
                  THEN [coupons EXCEPT ![req[r].applied].usedCount = @ + 1]
                  ELSE coupons
    /\ Finish(r, 200)
    /\ UNCHANGED <<carts, gwCount, mock, now, served>>

\* inserted = await order_collection.insert_one(...) and the response.
CoInsert(r) ==
    /\ req[r].pc = "co_insert"
    /\ \E amount \in TotalRounded(req[r].subtotal, req[r].disc) :
       \E tax \in TaxRounded(req[r].subtotal, req[r].disc) :
       \E discR \in DiscountRounded(req[r].disc) :
          orders' = Append(orders,
                       NewOrder(req[r].user, req[r].snap, req[r].subtotal, req[r].disc,
                                req[r].applied, req[r].rid, amount, tax, discR))
    /\ Finish(r, 200)
    /\ UNCHANGED <<carts, coupons, gwCount, mock, now, served>>

\* ------------------------------------------------- validate_coupon_endpoint

BeginValidate(r, u, code, subtotal) ==
    /\ req[r].pc = "idle"
    /\ Accept
    /\ req' = [req EXCEPT ![r] =
                  [Start("validate_coupon", "vc_check", u) EXCEPT
                      !.code = code, !.subtotal = subtotal]]
    /\ UNCHANGED <<carts, orders, coupons, gwCount, mock, now>>

\* get_valid_coupon and the response: the coupon, the HTTPException, or for
\* an empty code None, which the response model rejects.
VcCheck(r) ==
    /\ req[r].pc = "vc_check"
    /\ LET res == CouponCheck(req[r].code, req[r].subtotal)
       IN  Finish(r, IF res = "ok" THEN 200
                     ELSE IF res = "none" THEN 500
                     ELSE CouponErrorCode(res))
    /\ UNCHANGED <<carts, orders, coupons, gwCount, mock, now, served>>

\* ------------------------------------------------------------ verify_payment

BeginVerify(r, u, rid, pid, sig, oid) ==
    /\ req[r].pc = "idle"
    /\ Accept
    /\ req' = [req EXCEPT ![r] =
                  [Start("verify_payment", "vp_check", u) EXCEPT
                      !.rid = rid, !.pid = pid, !.sig = sig, !.oid = oid]]
    /\ UNCHANGED <<carts, orders, coupons, gwCount, mock, now>>

PaymentVerifiedFailOpen(rid, pid, sig, raised) ==
    mock \/ raised \/ SignatureOk(rid, pid, sig)

\* payment_verified of verify_payment: with the test key secret or without a
\* client it is True; otherwise it is True when verify_payment_signature
\* returns for the request's order id, payment id and signature, and False
\* on SignatureVerificationError and on any other exception (raised).
PaymentVerified(rid, pid, sig, raised) ==
    mock \/ (~raised /\ SignatureOk(rid, pid, sig))
VpCheckGuarded(r, raised) ==
    /\ req[r].pc = "vp_check"
    /\ IF ~PaymentVerified(req[r].rid, req[r].pid, req[r].sig, raised)
       THEN Finish(r, 400)
       ELSE IF req[r].oid = InvalidId
       THEN Finish(r, 500)
       ELSE IF req[r].oid \notin 1..Len(orders)
       THEN Finish(r, 404)
       ELSE IF orders[req[r].oid].status = "paid"
       THEN Finish(r, 200)
       ELSE req' = [req EXCEPT ![r].pc = "vp_paid",
                               ![r].rid = 0,
                               ![r].applied = orders[req[r].oid].coupon_code]
    /\ UNCHANGED <<carts, orders, coupons, gwCount, mock, now, served>>

\* The signature check (raised: the verification call ends in an exception
\* other than SignatureVerificationError), the 400, then
\* order = await order_collection.find_one({"_id": ObjectId(db_order_id)})
\* and the 404.  ObjectId(db_order_id) is built without ObjectId.is_valid:
\* for a string that is no ObjectId it raises bson.errors.InvalidId, which
\* nothing catches, and the response is 500.
VpCheck(r, raised) ==
    /\ req[r].pc = "vp_check"
    /\ IF ~PaymentVerified(req[r].rid, req[r].pid, req[r].sig, raised)
       THEN Finish(r, 400)
       ELSE IF req[r].oid = InvalidId
       THEN Finish(r, 500)
       ELSE IF req[r].oid \notin 1..Len(orders)
       THEN Finish(r, 404)
       ELSE req' = [req EXCEPT ![r].pc = "vp_paid",
                               ![r].rid = 0,
                               ![r].applied = orders[req[r].oid].coupon_code]
    /\ UNCHANGED <<carts, orders, coupons, gwCount, mock, now, served>>
VpPaidStatusOnly(r) ==
    /\ req[r].pc = "vp_paid"
    /\ orders' = [orders EXCEPT ![req[r].oid].status = "paid"]
    /\ req' = [req EXCEPT ![r].pc = "vp_clear", ![r].pid = "", ![r].sig = NoSig]
    /\ UNCHANGED <<carts, coupons, gwCount, mock, now, served>>

VpPaidCaptured(r) ==
    /\ req[r].pc = "vp_paid"
    /\ orders' = [orders EXCEPT ![req[r].oid] =
                     [@ EXCEPT !.status = "captured",
                               !.razorpay_payment_id = req[r].pid,
                               !.razorpay_signature = req[r].sig]]
    /\ req' = [req EXCEPT ![r].pc = "vp_clear", ![r].pid = "", ![r].sig = NoSig]
    /\ UNCHANGED <<carts, coupons, gwCount, mock, now, served>>

\* await order_collection.update_one({"_id": order["_id"]}, {"$set": {...}})
VpPaid(r) ==
    /\ req[r].pc = "vp_paid"
    /\ orders' = [orders EXCEPT ![req[r].oid] =
                     [@ EXCEPT !.status = "paid",
                               !.razorpay_payment_id = req[r].pid,
                               !.razorpay_signature = req[r].sig]]
    /\ req' = [req EXCEPT ![r].pc = "vp_clear", ![r].pid = "", ![r].sig = NoSig]
    /\ UNCHANGED <<carts, coupons, gwCount, mock, now, served>>

VpClearOrderItems(r) ==
    /\ req[r].pc = "vp_clear"
    /\ LET i == FindCart(req[r].user)
       IN  carts' = IF i = 0 THEN carts ELSE [carts EXCEPT ![i].items = <<>>]
    /\ orders' = [orders EXCEPT ![req[r].oid].items = <<>>]
    /\ IF req[r].applied = "" THEN Finish(r, 200) ELSE Goto(r, "vp_coupon")
    /\ UNCHANGED <<coupons, gwCount, mock, now, served>>

\* await cart_collection.update_one({"userId": ObjectId(current_user["id"])},
\* {"$set": {"items": []}}); without a coupon code on the order the response
\* follows.
VpClear(r) ==
    /\ req[r].pc = "vp_clear"
    /\ LET i == FindCart(req[r].user)
       IN  carts' = IF i = 0 THEN carts ELSE [carts EXCEPT ![i].items = <<>>]
    /\ IF req[r].applied = "" THEN Finish(r, 200) ELSE Goto(r, "vp_coupon")
    /\ UNCHANGED <<orders, coupons, gwCount, mock, now, served>>
VpClearFailsRollsBack(r) ==
    /\ req[r].pc = "vp_clear"
    /\ orders' = [orders EXCEPT ![req[r].oid] =
                     [@ EXCEPT !.status = "pending",
                               !.razorpay_payment_id = "",
                               !.razorpay_signature = NoSig]]
    /\ Finish(r, 500)
    /\ UNCHANGED <<carts, coupons, gwCount, mock, now, served>>

\* The same update_one raises (the datastore is unreachable, a write error):
\* nothing catches it, the response is 500 and the rest of verify_payment
\* does not run.  The $set on the order was a call of its own and stays.
VpClearFails(r) ==
    /\ req[r].pc = "vp_clear"
    /\ Finish(r, 500)
    /\ UNCHANGED <<carts, orders, coupons, gwCount, mock, now, served>>

\* await coupon_collection.update_one({"code": order["coupon_code"]},
\* {"$inc": {"usedCount": 1}}) and the response.
VpCoupon(r) ==
    /\ req[r].pc = "vp_coupon"
    /\ coupons' = IF req[r].applied \in DOMAIN coupons
                  THEN [coupons EXCEPT ![req[r].applied].usedCount = @ + 1]
                  ELSE coupons
    /\ Finish(r, 200)
    /\ UNCHANGED <<carts, orders, gwCount, mock, now, served>>

\* ------------------------------------------------------ the checkout machine

\* What the clients send in the checkout machine.
Item(p, size, color, price, q) ==
    [id |-> 0, productId |-> p, selectedSize |-> size, selectedColor |-> color,
     price |-> price, quantity |-> q]

ItemInputs == {Item("p1", "M", "red", 119013, 1)}

\* The users who shop; any user may send a payment confirmation.
Buyers == {"u1"}

CodeInputs == {"", "save", "FLAT", "OLD", "NOPE"}

SubtotalInputs == {0, 238026}

Coupon(type, value, minOrder, maxDiscount, expiryDate, usageLimit) ==
    [type |-> type, value |-> value, minOrder |-> minOrder, maxDiscount |-> maxDiscount,
     expiryDate |-> expiryDate, usageLimit |-> usageLimit, usedCount |-> 0]

\* The coupons the admin created before checkout starts (create_coupon stores
\* the code upper-cased with usedCount 0).
CouponTable ==
    [c \in {"SAVE", "FLAT", "OLD", "FIX", "CAP", "CAP0", "LIM0", "DUE", "LATE"} |->
        CASE c = "SAVE" -> Coupon("percentage", 500, NoneV, NoneV, NoneV, Some(1))
          [] c = "FLAT" -> Coupon("fixed", 10000, Some(200000), NoneV, NoneV, NoneV)
          [] c = "FIX"  -> Coupon("fixed", 10000, NoneV, NoneV, NoneV, NoneV)
          [] c = "CAP"  -> Coupon("percentage", 2000, NoneV, Some(50000), NoneV, NoneV)
          [] c = "CAP0" -> Coupon("percentage", 1000, NoneV, Some(0), NoneV, NoneV)
          [] c = "LIM0" -> Coupon("percentage", 1000, NoneV, NoneV, NoneV, Some(0))
          [] c = "DUE"  -> Coupon("percentage", 1000, NoneV, NoneV, Some(1), NoneV)
          [] c = "LATE" -> Coupon("percentage", 1000, NoneV, NoneV, Some(2), NoneV)
          [] OTHER      -> Coupon("percentage", 1000, NoneV, NoneV, Some(0), NoneV)]

\* The _id values a client can name: those in the carts, one that is in no
\* cart, and a string that is no ObjectId.
IdInputs ==
    UNION {{carts[i].items[k].id : k \in 1..Len(carts[i].items)} : i \in 1..Len(carts)}
      \cup {FreshId, InvalidId}

QtyInputs == {1, 2}

Init ==
    /\ carts = <<>>
    /\ orders = <<>>
    /\ coupons = CouponTable
    /\ gwCount = 0
    /\ mock \in BOOLEAN
    /\ now = 1
    /\ req = [r \in Slots |-> Fresh]
    /\ served = 0

Next ==
    \E r \in Slots :
        \/ \E u \in Buyers : BeginGetCart(r, u)
        \/ GcFind(r)
        \/ GcInsert(r)
        \/ \E u \in Buyers, item \in ItemInputs : BeginAddItem(r, u, item)
        \/ AiFind(r)
        \/ AiInsert(r)
        \/ AiUpdate(r)
        \/ \E u \in Buyers, id \in IdInputs, q \in QtyInputs : BeginUpdateItem(r, u, id, q)
        \/ UcUpdate(r)
        \/ \E u \in Buyers, id \in IdInputs : BeginRemoveItem(r, u, id)
        \/ RcPull(r)
        \/ Reread(r)
        \/ \E u \in Buyers, code \in CodeInputs : BeginCreateOrder(r, u, code)
        \/ CoCart(r)
        \/ CoCoupon(r)
        \/ CoInsert(r)
        \/ \E u \in Buyers, code \in CodeInputs, st \in SubtotalInputs :
              BeginValidate(r, u, code, st)
        \/ VcCheck(r)
        \/ \E u \in Users, rid \in 1..gwCount, pid \in PaymentIds :
              \E sig \in {Sign(rid, pid), Forged}, oid \in 1..(Len(orders) + 1) :
                 BeginVerify(r, u, rid, pid, sig, oid)
        \/ \E raised \in BOOLEAN : VpCheck(r, raised)
        \/ VpPaid(r)
        \/ VpClear(r)
        \/ VpCoupon(r)

Spec == Init /\ [][Next]_vars

\* ------------------------------------------- confirmations of pending orders

\* A client confirms an order it sees pending, with the signature the gateway
\* issued for that order's remote order id.
BeginVerifyPending(r, u, pid, oid) ==
    /\ req[r].pc = "idle"
    /\ orders[oid].status = "pending"
    /\ Accept
    /\ req' = [req EXCEPT ![r] =
                  [Start("verify_payment", "vp_check", u) EXCEPT
                      !.rid = orders[oid].razorpay_order_id,
                      !.pid = pid,
                      !.sig = Sign(orders[oid].razorpay_order_id, pid),
                      !.oid = oid]]
    /\ UNCHANGED <<carts, orders, coupons, gwCount, mock, now>>

NextRace ==
    \E r \in Slots :
        \/ \E u \in Buyers, item \in ItemInputs : BeginAddItem(r, u, item)
        \/ AiFind(r)
        \/ AiInsert(r)
        \/ AiUpdate(r)
        \/ Reread(r)
        \/ \E u \in Buyers, code \in CodeInputs : BeginCreateOrder(r, u, code)
        \/ CoCart(r)
        \/ CoCoupon(r)
        \/ CoInsert(r)
        \/ \E u \in Users, pid \in PaymentIds, oid \in 1..Len(orders) :
              BeginVerifyPending(r, u, pid, oid)
        \/ \E raised \in BOOLEAN : VpCheck(r, raised)
        \/ VpPaid(r)
        \/ VpClear(r)
        \/ VpCoupon(r)

SpecRace == Init /\ [][NextRace]_vars

\* ------------------------------------------------- one request at a time

\* One client sends its requests one after the other: line items that differ
\* in the product, in the size or in the colour only, and carts whose subtotal
\* lies below, at and above the free-shipping threshold.
SeqItemInputs ==
    {Item("p1", "M", "red", 100000, 1), Item("p1", "M", "red", 100000, 2),
     Item("p1", "M", "blue", 100000, 1), Item("p1", "L", "red", 5000, 1),
     Item("p2", "M", "red", 250000, 2)}

SeqCodeInputs == {"", "FIX", "CAP", "CAP0", "LIM0", "NOPE"}

SeqSlot == "r1"

NextSeq ==
    \/ \E u \in Buyers, item \in SeqItemInputs : BeginAddItem(SeqSlot, u, item)
    \/ AiFind(SeqSlot)
    \/ AiInsert(SeqSlot)
    \/ AiUpdate(SeqSlot)
    \/ Reread(SeqSlot)
    \/ \E u \in Buyers, code \in SeqCodeInputs : BeginCreateOrder(SeqSlot, u, code)
    \/ CoCart(SeqSlot)
    \/ CoCoupon(SeqSlot)
    \/ CoInsert(SeqSlot)
    \/ \E u \in Buyers, code \in SeqCodeInputs, st \in SubtotalInputs :
          BeginValidate(SeqSlot, u, code, st)
    \/ VcCheck(SeqSlot)

SpecSeq == Init /\ [][NextSeq]_vars

\* ------------------------------------------------ adds of one item only

\* The clients send add_item_to_cart requests only, all for the same product,
\* size and colour with quantity 1, so the quantity added so far is the number
\* of requests served.
NextAdd ==
    \E r \in Slots :
        \/ \E u \in Buyers, item \in ItemInputs : BeginAddItem(r, u, item)
        \/ AiFind(r)
        \/ AiInsert(r)
        \/ AiUpdate(r)
        \/ Reread(r)

SpecAdd == Init /\ [][NextAdd]_vars

\* ------------------------------------------------ first accesses to a cart

\* The clients send get_cart and add_item_to_cart requests only.
NextCart ==
    \E r \in Slots :
        \/ \E u \in Buyers : BeginGetCart(r, u)
        \/ GcFind(r)
        \/ GcInsert(r)
        \/ \E u \in Buyers, item \in ItemInputs : BeginAddItem(r, u, item)
        \/ AiFind(r)
        \/ AiInsert(r)
        \/ AiUpdate(r)
        \/ Reread(r)

SpecCart == Init /\ [][NextCart]_vars

\* ------------------------------------------------ payment confirmations

\* db_order_id as the client sends it: the _id of an order, an ObjectId that
\* no order has, or a string that is no ObjectId.
OrderIdInputs == 1..(Len(orders) + 1) \cup {InvalidId}

ConfirmCodeInputs == {"", "save"}

\* Two clients fill the cart, create orders and send payment confirmations
\* of every kind: right and forged signatures, any order id, orders that are
\* pending or already paid; the cart update of a confirmation may fail.
NextConfirm ==
    \E r \in Slots :
        \/ \E u \in Buyers, item \in ItemInputs : BeginAddItem(r, u, item)
        \/ AiFind(r)
        \/ AiInsert(r)
        \/ AiUpdate(r)
        \/ Reread(r)
        \/ \E u \in Buyers, code \in ConfirmCodeInputs : BeginCreateOrder(r, u, code)
        \/ CoCart(r)
        \/ CoCoupon(r)
        \/ CoInsert(r)
        \/ \E u \in Users, rid \in 1..gwCount, pid \in PaymentIds :
              \E sig \in {Sign(rid, pid), Forged}, oid \in OrderIdInputs :
                 BeginVerify(r, u, rid, pid, sig, oid)
        \/ \E raised \in BOOLEAN : VpCheck(r, raised)
        \/ VpPaid(r)
        \/ VpClear(r)
        \/ VpClearFails(r)
        \/ VpCoupon(r)

SpecConfirm == Init /\ [][NextConfirm]_vars

\* ------------------------------------------------- coupons and the clock

\* The codes of the coupons that carry an expiry: OLD expired before the
\* server started, DUE expires at the time the server starts, LATE after it.
ExpiryCodeInputs == {"OLD", "DUE", "LATE"}

\* datetime.now(timezone.utc) of get_valid_coupon: the clock moves on between
\* the steps of the requests.
Tick ==
    /\ now < MaxTime
    /\ now' = now + 1
    /\ UNCHANGED <<carts, orders, coupons, gwCount, mock, req, served>>

\* One client adds the item, validates the coupons that carry an expiry and
\* creates orders with them while the clock runs.
NextExpiry ==
    \/ \E u \in Buyers, item \in ItemInputs : BeginAddItem(SeqSlot, u, item)
    \/ AiFind(SeqSlot)
    \/ AiInsert(SeqSlot)
    \/ AiUpdate(SeqSlot)
    \/ Reread(SeqSlot)
    \/ \E u \in Buyers, code \in ExpiryCodeInputs : BeginCreateOrder(SeqSlot, u, code)
    \/ CoCart(SeqSlot)
    \/ CoCoupon(SeqSlot)
    \/ CoInsert(SeqSlot)
    \/ \E u \in Buyers, code \in ExpiryCodeInputs, st \in SubtotalInputs :
          BeginValidate(SeqSlot, u, code, st)
    \/ VcCheck(SeqSlot)
    \/ Tick

SpecExpiry == Init /\ [][NextExpiry]_vars

\* ----------------------------------------------------------------- properties

\* Slot r takes a step.
Moves(r) == req'[r] # req[r]

\* Slot r has finished a request of operation op with status code resp.
Done(r, op, resp) == req[r].pc = "idle" /\ req[r].op = op /\ req[r].resp = resp

Paid(i) == orders[i].status = "paid"

\* C1, with the real gateway: a verify_payment whose signature does not verify
\* ends with the 400 at its first step and leaves the orders, the carts and the
\* coupons as they are, so it marks no order paid, counts no coupon use and
\* clears no cart.
C1_WrongSignatureRejected ==
    [][\A r \in Slots :
          (/\ req[r].pc = "vp_check"
           /\ Moves(r)
           /\ ~mock
           /\ ~SignatureOk(req[r].rid, req[r].pid, req[r].sig))
          => (/\ req'[r].pc = "idle"
              /\ req'[r].resp = 400
              /\ UNCHANGED <<carts, orders, coupons>>)]_vars

\* C1 witness: with the real gateway a verify_payment for a pending order has
\* been answered 400.
C1_Witness ==
    /\ ~mock
    /\ \E r \in Slots : Done(r, "verify_payment", 400)
    /\ \E i \in 1..Len(orders) : ~Paid(i)

\* C1 as stated, for every configuration: a verify_payment whose signature
\* does not verify ends with the 400 and changes nothing.
C1_AsStated ==
    [][\A r \in Slots :
          (/\ req[r].pc = "vp_check"
           /\ Moves(r)
           /\ ~SignatureOk(req[r].rid, req[r].pid, req[r].sig))
          => (/\ req'[r].pc = "idle"
              /\ req'[r].resp = 400
              /\ UNCHANGED <<carts, orders, coupons>>)]_vars

\* C2: no coupon with a usage limit is counted more often than its limit.
C2_UsedWithinLimit ==
    \A c \in DOMAIN coupons :
        IsSet(coupons[c].usageLimit) => coupons[c].usedCount <= coupons[c].usageLimit[1]

\* The paid orders that carry coupon code c.
PaidWith(c) == {i \in 1..Len(orders) : Paid(i) /\ orders[i].coupon_code = c}

\* C3: when confirmations are sent for pending orders only, so that two
\* confirmations of one order are two calls in flight together, every coupon
\* is counted at most once for each paid order that carries it.
C3_CountedOncePerOrder ==
    \A c \in DOMAIN coupons : coupons[c].usedCount <= Cardinality(PaidWith(c))

\* C4, with the real gateway: a paid order records a signature that was
\* issued for its own remote order id and the payment id it records.
C4_PaidByOwnSignature ==
    ~mock =>
        \A i \in 1..Len(orders) :
            Paid(i) => orders[i].razorpay_signature =
                           Sign(orders[i].razorpay_order_id, orders[i].razorpay_payment_id)

\* C5: on every persisted order the rounded amounts add up:
\* amount = amount_subtotal - amount_discount + amount_shipping + amount_tax.
C5_AmountsAddUp ==
    \A i \in 1..Len(orders) :
        orders[i].amount = orders[i].amount_subtotal - orders[i].amount_discount
                             + orders[i].amount_shipping + orders[i].amount_tax

\* C6: a create_order that reached the coupon evaluation (its cart is not
\* empty) and whose code fails it (unknown, expired, exhausted, below the
\* minimum) goes on without coupon and discount; only a failure of the gateway
\* ends it, with the 500, never the coupon's 400 or 404.  Its insert adds
\* exactly one pending order, with discount 0 and no coupon code when none applied,
\* and answers 200.
C6_CouponFailureSwallowed ==
    [][\A r \in Slots :
          /\ (/\ req[r].pc = "co_coupon"
               /\ Moves(r)
               /\ CouponCheck(req[r].code, req[r].subtotal) # "ok")
              => IF req'[r].pc = "idle"
                 THEN req'[r].resp = 500 /\ req'[r].gwCalls = 1 /\ ~mock
                 ELSE /\ req'[r].pc = "co_insert"
                      /\ req'[r].disc = 0
                      /\ req'[r].applied = ""
                      /\ orders' = orders
          /\ (req[r].pc = "co_insert" /\ Moves(r))
              => /\ req'[r].pc = "idle"
                 /\ req'[r].resp = 200
                 /\ Len(orders') = Len(orders) + 1
                 /\ SubSeq(orders', 1, Len(orders)) = orders
                 /\ orders'[Len(orders')].status = "pending"
                 /\ req[r].applied = ""
                      => /\ orders'[Len(orders')].amount_discount = 0
                         /\ orders'[Len(orders')].coupon_code = ""]_vars

\* C6 witness: a create_order that carried an expired, an unknown or a
\* below-minimum code was answered 200 and the one order there is has no coupon
\* and no discount.
C6_Witness ==
    /\ \E r \in Slots :
          Done(r, "create_order", 200) /\ req[r].code \in {"OLD", "NOPE", "FLAT"}
    /\ Len(orders) = 1
    /\ orders[1].coupon_code = ""
    /\ orders[1].amount_discount = 0
    /\ orders[1].status = "pending"

\* C7: a create_order that finds no cart document, or a cart with no items,
\* ends with the 400, makes no gateway call and leaves the carts, the orders,
\* the coupons and the gateway as they are.
C7_EmptyCartRejected ==
    [][\A r \in Slots :
          (/\ req[r].pc = "co_cart"
           /\ Moves(r)
           /\ LET i == FindCart(req[r].user)
              IN  i = 0 \/ carts[i].items = <<>>)
          => (/\ req'[r].pc = "idle"
              /\ req'[r].resp = 400
              /\ req'[r].gwCalls = 0
              /\ UNCHANGED <<carts, orders, coupons, gwCount>>)]_vars

\* C7 witness: a create_order on a cart document without items was answered
\* 400, and there is no order and no remote order.
C7_Witness ==
    /\ \E r \in Slots : Done(r, "create_order", 400) /\ req[r].gwCalls = 0
    /\ carts # <<>>
    /\ orders = <<>>
    /\ gwCount = 0

C9_StatusLifecycle ==
    [][/\ Len(orders') >= Len(orders)
       /\ \A i \in 1..Len(orders') :
             /\ orders'[i].status \in {"pending", "paid"}
             /\ i > Len(orders) => orders'[i].status = "pending"
             /\ (i <= Len(orders) /\ orders[i].status = "paid")
                => orders'[i].status = "paid"]_vars

\* C9 witness: the first order is paid and a second order is pending.
C9_Witness ==
    /\ Len(orders) = 2
    /\ Paid(1)
    /\ orders[2].status = "pending"

\* The item snapshot and the five amounts of an order.
Priced(o) == <<o.items, o.amount, o.amount_subtotal, o.amount_tax,
               o.amount_shipping, o.amount_discount>>

\* C10: no step changes the item snapshot or an amount of an order that exists.
C10_OrderImmutable ==
    [][/\ Len(orders') >= Len(orders)
       /\ \A i \in 1..Len(orders) : Priced(orders'[i]) = Priced(orders[i])]_vars

\* C10 witness: an order is paid, its owner's cart has been emptied, and the
\* order still holds the items.
C10_Witness ==
    \E i \in 1..Len(orders) :
        /\ Paid(i)
        /\ orders[i].items # <<>>
        /\ FindCart(orders[i].userId) # 0
        /\ carts[FindCart(orders[i].userId)].items = <<>>

\* The key of a line item.
KeyOf(it) == <<it.productId, it.selectedSize, it.selectedColor>>

\* C11: when one client's requests run one after the other, the update of an
\* add_item_to_cart that finds a line item with the added item's product,
\* size and colour keeps the number of line items and adds the added quantity
\* to that item's quantity; with no such line item it appends one line item
\* with the added item's key, price and quantity and keeps the others; no
\* other cart changes.
C11_SequentialAdd ==
    [][(req[SeqSlot].pc = "ai_update" /\ Moves(SeqSlot))
       => LET c == FindCart(req[SeqSlot].user)
              it == req[SeqSlot].item
              old == carts[c].items
              new == carts'[c].items
              hits == {k \in 1..Len(old) : KeyOf(old[k]) = KeyOf(it)}
          IN  /\ Len(carts') = Len(carts)
              /\ \A j \in 1..Len(carts) : j # c => carts'[j] = carts[j]
              /\ IF hits # {}
                 THEN \E k \in hits :
                         new = [old EXCEPT ![k].quantity = @ + it.quantity]
                 ELSE /\ Len(new) = Len(old) + 1
                      /\ SubSeq(new, 1, Len(old)) = old
                      /\ KeyOf(new[Len(new)]) = KeyOf(it)
                      /\ new[Len(new)].price = it.price
                      /\ new[Len(new)].quantity = it.quantity]_vars

\* C11 witness: after three adds the cart holds the red item once, with the
\* quantities 1 and 2 summed, and after it the item that differs in colour only.
C11_Witness ==
    /\ req[SeqSlot].pc = "idle"
    /\ Len(carts) = 1
    /\ Len(carts[1].items) = 2
    /\ KeyOf(carts[1].items[1]) = <<"p1", "M", "red">>
    /\ carts[1].items[1].quantity = 3
    /\ KeyOf(carts[1].items[2]) = <<"p1", "M", "blue">>
    /\ carts[1].items[2].quantity = 1

\* C12: once the add_item_to_cart calls for one product, size and colour have
\* all returned, a cart that holds one line item for it holds the whole
\* quantity added, whether or not the calls were in flight together.
C12_NoLostUpdate ==
    (/\ \A r \in Slots : req[r].pc = "idle"
     /\ Len(carts) = 1
     /\ Len(carts[1].items) = 1)
    => carts[1].items[1].quantity = served

Min(a, b) == IF a <= b THEN a ELSE b

\* C13: a create_order whose percentage coupon passes evaluation applies
\* subtotal * value / 100 without a cap, and the smaller of that and maxDiscount
\* whenever maxDiscount is set, 0 included.
C13_PercentageCapped ==
    [][(/\ req[SeqSlot].pc = "co_coupon"
        /\ Moves(SeqSlot)
        /\ req'[SeqSlot].pc = "co_insert"
        /\ CouponCheck(req[SeqSlot].code, req[SeqSlot].subtotal) = "ok"
        /\ coupons[Upper(req[SeqSlot].code)].type = "percentage")
       => LET c == coupons[Upper(req[SeqSlot].code)]
              d == req[SeqSlot].subtotal * (c.value \div 100)
          IN  req'[SeqSlot].disc = IF IsSet(c.maxDiscount)
                                   THEN Min(d, c.maxDiscount[1] * 100)
                                   ELSE d]_vars

\* The code names a coupon whose usage limit is set and reached.
Spent(code) ==
    /\ Upper(code) \in DOMAIN coupons
    /\ IsSet(coupons[Upper(code)].usageLimit)
    /\ coupons[Upper(code)].usedCount >= coupons[Upper(code)].usageLimit[1]

\* C14: for a coupon whose usage limit is set (0 included) and reached, the
\* validate endpoint does not answer 200 and create_order goes on with
\* discount 0 and no coupon code, whatever the subtotal.
C14_ExhaustedRejected ==
    [][/\ (/\ req[SeqSlot].pc = "vc_check"
            /\ Moves(SeqSlot)
            /\ Spent(req[SeqSlot].code))
           => req'[SeqSlot].resp # 200
       /\ (/\ req[SeqSlot].pc = "co_coupon"
            /\ Moves(SeqSlot)
            /\ req'[SeqSlot].pc = "co_insert"
            /\ Spent(req[SeqSlot].code))
           => (req'[SeqSlot].disc = 0 /\ req'[SeqSlot].applied = "")]_vars

\* C15: the order a create_order inserts has shipping 0 when subtotal -
\* discount is above 5000 and 99 otherwise, and as tax the cent nearest to
\* (subtotal - discount) * 0.18.
C15_ShippingAndTax ==
    [][(req[SeqSlot].pc = "co_insert" /\ Moves(SeqSlot))
       => LET o == orders'[Len(orders')]
              b == req[SeqSlot].subtotal * 100 - req[SeqSlot].disc
              w == b \div 10000
              m == b % 10000
              t == o.amount_tax - TaxRatePct * w
          IN  /\ Len(orders') = Len(orders) + 1
              /\ o.amount_shipping = IF b > FreeShippingOver * 10000
                                     THEN 0 ELSE ShippingFee * 100
              /\ 2 * (t * 10000 - TaxRatePct * m) <= 10000
              /\ 2 * (TaxRatePct * m - t * 10000) <= 10000]_vars

\* C15 witness: an order of subtotal 5000 without discount pays shipping 99
\* and tax 900, and an order above the threshold pays no shipping.
C15_Witness ==
    /\ \E i \in 1..Len(orders) :
          /\ orders[i].amount_subtotal = 500000
          /\ orders[i].amount_discount = 0
          /\ orders[i].amount_shipping = 9900
          /\ orders[i].amount_tax = 90000
    /\ \E i \in 1..Len(orders) :
          /\ orders[i].amount_subtotal - orders[i].amount_discount > 500000
          /\ orders[i].amount_shipping = 0

\* C16: a create_order whose fixed coupon passes evaluation applies exactly
\* the coupon's value as discount, whatever the subtotal, and records the code.
C16_FixedVerbatim ==
    [][(/\ req[SeqSlot].pc = "co_coupon"
        /\ Moves(SeqSlot)
        /\ req'[SeqSlot].pc = "co_insert"
        /\ CouponCheck(req[SeqSlot].code, req[SeqSlot].subtotal) = "ok"
        /\ coupons[Upper(req[SeqSlot].code)].type = "fixed")
       => /\ req'[SeqSlot].disc = coupons[Upper(req[SeqSlot].code)].value * 100
          /\ req'[SeqSlot].applied = Upper(req[SeqSlot].code)]_vars

\* C16 witness: the cart [{price 1000, quantity 2}] with the fixed coupon of
\* value 100 gave an order of subtotal 2000, discount 100, shipping 99, tax 342
\* and total 2341.
C16_Witness ==
    \E i \in 1..Len(orders) :
        /\ Len(orders[i].items) = 1
        /\ orders[i].items[1].price = 100000
        /\ orders[i].items[1].quantity = 2
        /\ orders[i].coupon_code = "FIX"
        /\ orders[i].amount_subtotal = 200000
        /\ orders[i].amount_discount = 10000
        /\ orders[i].amount_shipping = 9900
        /\ orders[i].amount_tax = 34200
        /\ orders[i].amount = 234100

\* C17: a create_order that ends in the step of its gateway call (the call
\* failed) is answered 500, and that step leaves the carts, the orders, the
\* coupons and the remote orders as they are; no create_order calls the
\* gateway more than once, and none changes a collection except by the insert
\* that follows a gateway call that returned.
C17_GatewayFailure ==
    [][\A r \in Slots :
          (Moves(r) /\ req[r].op = "create_order" /\ req[r].pc # "idle")
          => /\ req'[r].gwCalls <= 1
             /\ (req'[r].pc = "idle" /\ req'[r].gwCalls > req[r].gwCalls)
                => (/\ req'[r].resp = 500
                    /\ UNCHANGED <<carts, orders, coupons, gwCount>>)
             /\ req[r].pc # "co_insert" => UNCHANGED <<carts, orders, coupons>>]_vars

\* C17 witness: with the real gateway a create_order on a cart with an item
\* was answered 500 after one gateway call, and there is no order and no
\* remote order.
C17_Witness ==
    /\ ~mock
    /\ \E r \in Slots : Done(r, "create_order", 500) /\ req[r].gwCalls = 1
    /\ carts # <<>>
    /\ carts[1].items # <<>>
    /\ orders = <<>>
    /\ gwCount = 0
    /\ \A c \in DOMAIN coupons : coupons[c].usedCount = 0

\* C18: a verify_payment whose verification call ends in an exception other
\* than a signature mismatch, the signature being the right one, ends with
\* the 400 and leaves the orders, the carts and the coupons as they are.
C18_FailClosed ==
    [][\A r \in Slots :
          (~mock /\ VpCheck(r, TRUE))
          => (/\ req'[r].pc = "idle"
              /\ req'[r].resp = 400
              /\ UNCHANGED <<carts, orders, coupons>>)]_vars

\* C18 witness: with the real gateway, where every confirmation carries the
\* signature issued for its order, a verify_payment was answered 400, the
\* order is still pending and its coupon is not counted.
C18_Witness ==
    /\ ~mock
    /\ \E r \in Slots : Done(r, "verify_payment", 400)
    /\ Len(orders) = 1
    /\ orders[1].status = "pending"
    /\ orders[1].coupon_code = "SAVE"
    /\ coupons["SAVE"].usedCount = 0
    /\ carts[1].items # <<>>

\* C19: the cart step of a verify_payment empties the cart of the user who
\* owns the order and changes no other user's cart, whoever the caller is.
C19_ClearsOwnersCart ==
    [][\A r \in Slots :
          (req[r].pc = "vp_clear" /\ Moves(r))
          => LET owner == orders[req[r].oid].userId
                 i == FindCart(owner)
             IN  /\ i # 0 => carts'[i].items = <<>>
                 /\ \A j \in 1..Len(carts) :
                       carts[j].userId # owner => carts'[j] = carts[j]]_vars

\* C20: there is at most one cart document for each user.
C20_OneCartPerUser ==
    \A i, j \in 1..Len(carts) : carts[i].userId = carts[j].userId => i = j

\* C21: a coupon with an expiry set is rejected exactly when the expiry is
\* strictly before the current time.  With expiry < now the validate endpoint
\* answers 400 and create_order goes on with no discount and no coupon; with
\* expiry >= now, equality included, the coupon (which has no usage limit and
\* no minimum order) is returned by validate and applied by create_order.
C21_ExpiryStrict ==
    [][\A r \in Slots :
          (/\ Moves(r)
           /\ Upper(req[r].code) \in DOMAIN coupons
           /\ coupons[Upper(req[r].code)].expiryDate # NoneV
           /\ coupons[Upper(req[r].code)].usageLimit = NoneV
           /\ coupons[Upper(req[r].code)].minOrder = NoneV)
          => LET code == Upper(req[r].code)
                 expiry == coupons[code].expiryDate[1]
             IN  /\ req[r].pc = "vc_check"
                     => req'[r].resp = IF expiry < now THEN 400 ELSE 200
                 /\ (req[r].pc = "co_coupon" /\ req'[r].pc = "co_insert")
                     => IF expiry < now
                        THEN req'[r].disc = 0 /\ req'[r].applied = ""
                        ELSE req'[r].disc > 0 /\ req'[r].applied = code]_vars

\* The clock still reads the expiry time of DUE: an order was created with
\* DUE applied and validate has just returned DUE.
C21_Witness ==
    /\ now = 1
    /\ coupons["DUE"].expiryDate = Some(now)
    /\ \E i \in 1..Len(orders) :
          orders[i].coupon_code = "DUE" /\ orders[i].amount_discount > 0
    /\ Done(SeqSlot, "validate_coupon", 200)
    /\ req[SeqSlot].code = "DUE"

\* C22: an order stores a coupon code exactly when a code was supplied and
\* passed get_valid_coupon while the order was created.  Without a code, or
\* with a code that fails, create_order goes to the insert with no coupon; the
\* insert stores what create_order applied; and a verify_payment of an order
\* that stores no coupon code changes no coupon.
C22_CodeStoredIffApplied ==
    [][\A r \in Slots :
          /\ (req[r].pc = "co_cart" /\ req'[r].pc = "co_insert")
             => req[r].code = "" /\ req'[r].applied = ""
          /\ (req[r].pc = "co_coupon" /\ req'[r].pc = "co_insert")
             => /\ req[r].code # ""
                /\ req'[r].applied =
                      IF CouponCheck(req[r].code, req[r].subtotal) = "ok"
                      THEN Upper(req[r].code) ELSE ""
          /\ (req[r].pc = "co_insert" /\ Moves(r))
             => /\ Len(orders') = Len(orders) + 1
                /\ orders'[Len(orders')].coupon_code = req[r].applied
          /\ (/\ req[r].op = "verify_payment"
              /\ Moves(r)
              /\ req[r].oid \in 1..Len(orders)
              /\ orders[req[r].oid].coupon_code = "")
             => coupons' = coupons]_vars

\* One client's create_order named a coupon that fails (expired, or unknown):
\* the order stores no code, and after the other client's verify_payment
\* returned 200 the order is paid and no coupon was counted.
C22_Witness ==
    /\ Len(orders) = 1
    /\ Paid(1)
    /\ orders[1].coupon_code = ""
    /\ \E r, q \in Slots :
          /\ Done(r, "create_order", 200)
          /\ req[r].code \in {"OLD", "NOPE"}
          /\ Done(q, "verify_payment", 200)
    /\ \A c \in DOMAIN coupons : coupons[c].usedCount = 0

\* C23: a verify_payment whose signature verifies and whose order id matches
\* no order answers 404 and changes no order, no cart and no coupon.
C23_UnknownOrder404 ==
    [][\A r \in Slots :
          (/\ VpCheck(r, FALSE)
           /\ mock \/ SignatureOk(req[r].rid, req[r].pid, req[r].sig)
           /\ req[r].oid \notin 1..Len(orders))
          => /\ req'[r].pc = "idle"
             /\ req'[r].resp = 404
             /\ UNCHANGED db]_vars

\* C24: verify_payment does not look at the order's status.  A confirmation
\* of an existing order whose signature verifies goes on to the paid step
\* also when the order is already paid (or ends with 400 when the
\* verification call itself raised); the paid step sets the status to paid;
\* the cart step, unless its update fails, empties the caller's cart and
\* leads to the coupon step exactly when the order stores a coupon code; the
\* coupon step raises that coupon's usedCount by 1 and answers 200.  So every
\* successful confirmation of a coupon-carrying order counts one more use.
C24_ReplayRepeatsEffects ==
    [][\A r \in Slots :
          (req[r].op = "verify_payment" /\ Moves(r) /\ req[r].oid \in 1..Len(orders))
          => LET o == orders[req[r].oid]
                 i == FindCart(req[r].user)
             IN  /\ (/\ req[r].pc = "vp_check"
                     /\ mock \/ SignatureOk(req[r].rid, req[r].pid, req[r].sig))
                    => \/ req'[r].pc = "vp_paid"
                       \/ ~mock /\ req'[r].pc = "idle" /\ req'[r].resp = 400
                 /\ req[r].pc = "vp_paid"
                    => orders'[req[r].oid].status = "paid" /\ req'[r].pc = "vp_clear"
                 /\ (req[r].pc = "vp_clear" /\ req'[r].resp # 500)
                    => /\ i # 0 => carts'[i].items = <<>>
                       /\ o.coupon_code # "" => req'[r].pc = "vp_coupon"
                       /\ o.coupon_code = "" => req'[r].pc = "idle" /\ req'[r].resp = 200
                 /\ req[r].pc = "vp_coupon"
                    => /\ coupons'[o.coupon_code].usedCount =
                             coupons[o.coupon_code].usedCount + 1
                       /\ req'[r].pc = "idle" /\ req'[r].resp = 200]_vars

\* One order, created with SAVE by one client; the other client sent both of
\* the run's confirmations, one after the other, the second for the order
\* already paid: both returned 200, its cart is empty and SAVE counts 2 uses.
C24_Witness ==
    /\ Len(orders) = 1
    /\ Paid(1)
    /\ orders[1].coupon_code = "SAVE"
    /\ coupons["SAVE"].usedCount = 2
    /\ \E r, q \in Slots :
          /\ Done(r, "create_order", 200)
          /\ Done(q, "verify_payment", 200)
    /\ \A i \in 1..Len(carts) : carts[i].items = <<>>

\* C25: when the cart update of verify_payment fails, the order the request
\* has set to paid stays as it is: status paid, a payment id and a signature
\* recorded.  Nothing is rolled back; the request ends with 500.
C25_PaidSurvivesCartFailure ==
    [][\A r \in Slots :
          (req[r].pc = "vp_clear" /\ Moves(r) /\ carts' = carts /\ req'[r].resp = 500)
          => /\ orders'[req[r].oid].status = "paid"
             /\ orders'[req[r].oid].razorpay_payment_id # ""
             /\ orders'[req[r].oid].razorpay_signature # NoSig
             /\ orders' = orders]_vars

\* The only confirmation of the run failed at the cart update: it ended with
\* 500, the cart still holds its item, the coupon was not counted, and the
\* order is paid with payment id and signature.
C25_Witness ==
    /\ Len(orders) = 1
    /\ Paid(1)
    /\ orders[1].razorpay_payment_id = "pay_1"
    /\ orders[1].razorpay_signature # NoSig
    /\ orders[1].coupon_code = "SAVE"
    /\ coupons["SAVE"].usedCount = 0
    /\ \E r, q \in Slots :
          /\ Done(r, "verify_payment", 500)
          /\ req[q].op # "verify_payment"
    /\ \E i \in 1..Len(carts) : carts[i].items # <<>>

\* C26: every order carries a remote order id the gateway (or the mock) has
\* issued; a pending order has no payment id and no signature; a paid order
\* has a payment id and a signature.
C26_OrderRecordsPayment ==
    \A i \in 1..Len(orders) :
        /\ orders[i].razorpay_order_id \in 1..gwCount
        /\ orders[i].status = "pending"
           => orders[i].razorpay_payment_id = "" /\ orders[i].razorpay_signature = NoSig
        /\ orders[i].status = "paid"
           => orders[i].razorpay_payment_id # "" /\ orders[i].razorpay_signature # NoSig

\* Two orders, the first paid by a confirmation that has returned, the second
\* still pending.
C26_Witness ==
    /\ Len(orders) = 2
    /\ Paid(1)
    /\ orders[1].razorpay_payment_id = "pay_1"
    /\ orders[2].status = "pending"
    /\ orders[2].razorpay_order_id # orders[1].razorpay_order_id
    /\ \E r \in Slots : Done(r, "verify_payment", 200)
====
